---- MODULE Spec2Model ----
(***************************************************************************)
(* Model of employees-details/server.js: an Express service that records   *)
(* employees in a MongoDB collection and mirrors each new record into a    *)
(* second collection, company_list.                                        *)
(*                                                                         *)
(* Every step of the model is one run-to-completion segment of the Node    *)
(* event loop: the synchronous part of a handler up to its next await, or  *)
(* the continuation that runs when an awaited store operation settles.     *)
(*                                                                         *)
(* The store is the environment of the program.  An operation takes effect *)
(* in the step in which it settles: an insert that resolves has stored its *)
(* documents, an insertOne that rejects has stored nothing, an insertMany  *)
(* that rejects has stored the documents before the failing one.  The      *)
(* acknowledged flag of a resolved insert is fixed by the write concern of *)
(* the client.  Each request arrives on a connection of its own, so the    *)
(* server has drained when no request is in flight.  Db is taken to expose *)
(* its client, as db.client.close() requires.                              *)
(***************************************************************************)
EXTENDS Integers, Sequences, FiniteSets

\* ------------------------------------------------------------------ bounds
\* Number of HTTP requests accepted during one run of the process.
MaxReq == 2

\* ------------------------------------------------------------ JS values
\* The JavaScript value undefined (an absent body field or query parameter).
Undefined == "<undefined>"

\* JavaScript truthiness of the values the model draws: !v is true for
\* undefined and for the empty string.
Falsy(v) == v \in {Undefined, ""}

\* new Date(): the value of the server-assigned timestamp is abstracted; the
\* field it is stored in is kept.
Now == "<date>"

\* ------------------------------------------------------------- constants
\* The two documents of the first insertMany of connectToMongo.
SeedEmployees ==
    << [name |-> "Charlie Brown", email |-> "charlie.b@voiceowl.com", department |-> "HR"],
       [name |-> "Diana Prince", email |-> "diana.p@voiceowl.com", department |-> "Sales"] >>

\* Mutant of SeedCompanyList: the second seed entry names another person than
\* the second seed employee.
SeedCompanyListTypo ==
    << [name |-> "Charlie Brown", addedAt |-> Now],
       [name |-> "Diana Price", addedAt |-> Now] >>

\* The two documents of the second insertMany of connectToMongo.
SeedCompanyList ==
    << [name |-> "Charlie Brown", addedAt |-> Now],
       [name |-> "Diana Prince", addedAt |-> Now] >>

\* --------------------------------------------------------------- inputs
\* Request bodies after the destructuring { name, email, department } = req.body.
Bodies ==
    { [name |-> "Ann", email |-> "ann@x.io", department |-> "Eng"],
      [name |-> "Bob", email |-> "bob@x.io", department |-> Undefined],
      [name |-> Undefined, email |-> "ann@x.io", department |-> "Eng"],
      [name |-> "Ann", email |-> "", department |-> Undefined] }

\* Values of req.query.name.
Queries == {Undefined, "Ann"}

\* The write concern the connection string configures: with "w0" the driver
\* resolves every insert with acknowledged = false.
WriteConcerns == {"acked", "w0"}

VARIABLES
    db,            \* the module-level handle `db`: TRUE once assigned
    writeConcern,  \* write concern of the client created from mongoUri
    startPc,       \* position of connectToMongo
    employees,     \* the employees collection, in insertion order
    company_list,  \* the company_list collection, in insertion order
    seeded,        \* how many seed documents each insertMany stored
    reqs,          \* the requests accepted so far, in order of arrival
    listener,      \* the HTTP server: "listening", "closing" or "closed"
    clientClosed,  \* db.client.close() was called
    exitCode,      \* -1 while the process runs, else the code passed to process.exit
    storeReply     \* how the store operation that settled last settled

vars == << db, writeConcern, startPc, employees, company_list, seeded, reqs,
           listener, clientClosed, exitCode, storeReply >>

Running == exitCode = -1

\* ------------------------------------------------------------- helpers
Take(s, k) == SubSeq(s, 1, k)

\* Number of occurrences of d in s.
Count(s, d) == Cardinality({i \in 1..Len(s) : s[i] = d})

CountName(s, n) == Cardinality({i \in 1..Len(s) : s[i].name = n})

IsPrefix(p, s) == Len(p) <= Len(s) /\ Take(s, Len(p)) = p

\* result.acknowledged of an insert that resolved.
Acknowledged(wc) == wc = "acked"

\* ---------------------------------------------------------------- Init
Init ==
    /\ db = FALSE
    /\ writeConcern \in WriteConcerns
    /\ startPc = "connect"
    /\ employees = << >>
    /\ company_list = << >>
    /\ seeded = [emp |-> 0, cl |-> 0]
    /\ reqs = << >>
    /\ listener = "listening"
    /\ clientClosed = FALSE
    /\ exitCode = -1
    /\ storeReply = "none"

\* The reply of a store operation that resolved (ok) or rejected.
Reply(ok) == IF ok THEN "resolved" ELSE "rejected"

\* Mutant of StartupFailed: the catch block logs the error and does not exit.
StartupFailedNoExit(at) ==
    /\ startPc' = at
    /\ UNCHANGED exitCode

\* process.exit(1) in the catch block of connectToMongo.
StartupFailed(at) ==
    /\ startPc' = at
    /\ exitCode' = 1

\* ------------------------------------------------------ connectToMongo
\* await client.connect() settles.
ConnectDone(ok) ==
    /\ Running
    /\ storeReply' = Reply(ok)
    /\ startPc = "connect"
    /\ IF ok
         THEN /\ db' = TRUE
              /\ startPc' = "count"
              /\ UNCHANGED exitCode
         ELSE /\ StartupFailed("connectFailed")
              /\ UNCHANGED db
    /\ UNCHANGED << writeConcern, employees, company_list, seeded, reqs,
                    listener, clientClosed >>

\* await employeesCollection.countDocuments() settles.
CountDone(ok) ==
    /\ Running
    /\ storeReply' = Reply(ok)
    /\ startPc = "count"
    /\ IF ok
         THEN /\ startPc' = IF Len(employees) = 0 THEN "seedEmployees" ELSE "done"
              /\ UNCHANGED exitCode
         ELSE StartupFailed("countFailed")
    /\ UNCHANGED << db, writeConcern, employees, company_list, seeded, reqs,
                    listener, clientClosed >>

\* await employeesCollection.insertMany([...]) settles; when it rejects, the
\* documents before the failing one (stored of them) stay in the collection.
SeedEmployeesDone(ok, stored) ==
    /\ Running
    /\ storeReply' = Reply(ok)
    /\ startPc = "seedEmployees"
    /\ IF ok
         THEN /\ employees' = employees \o SeedEmployees
              /\ seeded' = [seeded EXCEPT !.emp = Len(SeedEmployees)]
              /\ startPc' = "seedCompanyList"
              /\ UNCHANGED exitCode
         ELSE /\ employees' = employees \o Take(SeedEmployees, stored)
              /\ seeded' = [seeded EXCEPT !.emp = stored]
              /\ StartupFailed("seedEmployeesFailed")
    /\ UNCHANGED << db, writeConcern, company_list, reqs,
                    listener, clientClosed >>

\* await db.collection(companyListCollectionName).insertMany([...]) settles.
SeedCompanyListDone(ok, stored) ==
    /\ Running
    /\ storeReply' = Reply(ok)
    /\ startPc = "seedCompanyList"
    /\ IF ok
         THEN /\ company_list' = company_list \o SeedCompanyList
              /\ seeded' = [seeded EXCEPT !.cl = Len(SeedCompanyList)]
              /\ startPc' = "done"
              /\ UNCHANGED exitCode
         ELSE /\ company_list' = company_list \o Take(SeedCompanyList, stored)
              /\ seeded' = [seeded EXCEPT !.cl = stored]
              /\ StartupFailed("seedCompanyListFailed")
    /\ UNCHANGED << db, writeConcern, employees, reqs,
                    listener, clientClosed >>

\* ------------------------------------------------------------ requests
\* A request that has been answered.
Answered(route, arg, status, result) ==
    [route |-> route, arg |-> arg, pc |-> "done", status |-> status, result |-> result]

\* A request whose handler awaits a store operation (no status sent yet).
Awaiting(route, arg, pc) ==
    [route |-> route, arg |-> arg, pc |-> pc, status |-> 0, result |-> << >>]

\* The listener hands a new connection to the router.
Accepting ==
    /\ Running
    /\ listener = "listening"
    /\ Len(reqs) < MaxReq

InFlight == {i \in 1..Len(reqs) : reqs[i].pc # "done"}

\* Mutant of HealthStatus: the test is db !== null, which undefined passes.
HealthStatusNotNull(handle) == 200

\* app.get('/health'): the status sent for a value of the handle.
HealthStatus(handle) == IF handle THEN 200 ELSE 503

Health ==
    /\ Accepting
    /\ UNCHANGED storeReply
    /\ reqs' = Append(reqs, Answered("GET /health", Undefined, HealthStatus(db), << >>))
    /\ UNCHANGED << db, writeConcern, startPc, employees, company_list, seeded,
                    listener, clientClosed, exitCode >>

\* app.get('/greet'): the message built from req.query.name.
GreetMessage(q) == "Hello, " \o (IF Falsy(q) THEN "World" ELSE q) \o "!"

Greet(q) ==
    /\ Accepting
    /\ UNCHANGED storeReply
    /\ reqs' = Append(reqs, Answered("GET /greet", q, 200, << [message |-> GreetMessage(q)] >>))
    /\ UNCHANGED << db, writeConcern, startPc, employees, company_list, seeded,
                    listener, clientClosed, exitCode >>

\* Mutant of PostEarlyStatus: only name is validated.
PostEarlyStatusNameOnly(handle, body) ==
    IF ~handle THEN 503
    ELSE IF Falsy(body.name) THEN 400
    ELSE 0

\* Mutant of PostEarlyStatus: the fields are validated before the handle is
\* tested.
PostEarlyStatusValidateFirst(handle, body) ==
    IF Falsy(body.name) \/ Falsy(body.email) THEN 400
    ELSE IF ~handle THEN 503
    ELSE 0

\* The checks of app.post('/employees') before its try block: the status of
\* the early return, or 0 when the handler goes on to the primary insert.
PostEarlyStatus(handle, body) ==
    IF ~handle THEN 503
    ELSE IF Falsy(body.name) \/ Falsy(body.email) THEN 400
    ELSE 0

\* const newEmployee = { name, email, department, addedDate: new Date() }
NewEmployee(body) ==
    [name |-> body.name, email |-> body.email, department |-> body.department,
     addedDate |-> Now]

\* Mutant of CompanyListEntry: the whole employee record is mirrored.
CompanyListEntryFull(body) ==
    [name |-> body.name, email |-> body.email, department |-> body.department,
     addedAt |-> Now]

\* const companyListEntry = { name, addedAt: new Date() }
CompanyListEntry(body) == [name |-> body.name, addedAt |-> Now]

\* app.post('/employees') up to await employeesCollection.insertOne(newEmployee).
PostEmployees(body) ==
    /\ Accepting
    /\ UNCHANGED storeReply
    /\ LET early == PostEarlyStatus(db, body) IN
         reqs' = Append(reqs,
                   IF early # 0
                     THEN Answered("POST /employees", body, early, << >>)
                     ELSE Awaiting("POST /employees", body, "awaitPrimary"))
    /\ UNCHANGED << db, writeConcern, startPc, employees, company_list, seeded,
                    listener, clientClosed, exitCode >>

\* Mutant of PrimaryInsertDone: the handler answers 201 after the primary
\* insert and never issues the mirror insert.
PrimaryInsertDoneNoMirror(i, ok) ==
    /\ Running
    /\ storeReply' = Reply(ok)
    /\ i \in 1..Len(reqs)
    /\ reqs[i].pc = "awaitPrimary"
    /\ IF ok
         THEN /\ employees' = Append(employees, NewEmployee(reqs[i].arg))
              /\ reqs' = [reqs EXCEPT ![i] =
                            IF Acknowledged(writeConcern)
                              THEN Answered(@.route, @.arg, 201, << NewEmployee(@.arg) >>)
                              ELSE Answered(@.route, @.arg, 500, << >>)]
         ELSE /\ UNCHANGED employees
              /\ reqs' = [reqs EXCEPT ![i] = Answered(@.route, @.arg, 500, << >>)]
    /\ UNCHANGED << db, writeConcern, startPc, company_list, seeded,
                    listener, clientClosed, exitCode >>

\* The primary insertOne of request i settles: on an acknowledged result the
\* handler issues the mirror insert, otherwise it answers 500.
PrimaryInsertDone(i, ok) ==
    /\ Running
    /\ storeReply' = Reply(ok)
    /\ i \in 1..Len(reqs)
    /\ reqs[i].pc = "awaitPrimary"
    /\ IF ok
         THEN /\ employees' = Append(employees, NewEmployee(reqs[i].arg))
              /\ reqs' = [reqs EXCEPT ![i] =
                            IF Acknowledged(writeConcern)
                              THEN Awaiting(@.route, @.arg, "awaitMirror")
                              ELSE Answered(@.route, @.arg, 500, << >>)]
         ELSE /\ UNCHANGED employees
              /\ reqs' = [reqs EXCEPT ![i] = Answered(@.route, @.arg, 500, << >>)]
    /\ UNCHANGED << db, writeConcern, startPc, company_list, seeded,
                    listener, clientClosed, exitCode >>

\* The mirror insertOne of request i settles: 201 with the created record
\* when it resolved, 500 from the catch block when it rejected.
MirrorInsertDone(i, ok) ==
    /\ Running
    /\ storeReply' = Reply(ok)
    /\ i \in 1..Len(reqs)
    /\ reqs[i].pc = "awaitMirror"
    /\ IF ok
         THEN /\ company_list' = Append(company_list, CompanyListEntry(reqs[i].arg))
              /\ reqs' = [reqs EXCEPT ![i] =
                            Answered(@.route, @.arg, 201, << NewEmployee(@.arg) >>)]
         ELSE /\ UNCHANGED company_list
              /\ reqs' = [reqs EXCEPT ![i] = Answered(@.route, @.arg, 500, << >>)]
    /\ UNCHANGED << db, writeConcern, startPc, employees, seeded,
                    listener, clientClosed, exitCode >>

\* The check of the two list handlers before their try block.
ListEarlyStatus(handle) == IF ~handle THEN 503 ELSE 0

\* app.get('/employees') up to await ...find({}).toArray().
GetEmployees ==
    /\ Accepting
    /\ UNCHANGED storeReply
    /\ reqs' = Append(reqs,
                 IF ListEarlyStatus(db) # 0
                   THEN Answered("GET /employees", Undefined, ListEarlyStatus(db), << >>)
                   ELSE Awaiting("GET /employees", Undefined, "awaitFind"))
    /\ UNCHANGED << db, writeConcern, startPc, employees, company_list, seeded,
                    listener, clientClosed, exitCode >>

\* app.get('/company-list') up to await ...find({}).toArray().
GetCompanyList ==
    /\ Accepting
    /\ UNCHANGED storeReply
    /\ reqs' = Append(reqs,
                 IF ListEarlyStatus(db) # 0
                   THEN Answered("GET /company-list", Undefined, ListEarlyStatus(db), << >>)
                   ELSE Awaiting("GET /company-list", Undefined, "awaitFind"))
    /\ UNCHANGED << db, writeConcern, startPc, employees, company_list, seeded,
                    listener, clientClosed, exitCode >>

\* Mutant of Collection: both list handlers read the employees collection.
CollectionEmployees(route) == employees

\* The collection a list handler reads.
Collection(route) == IF route = "GET /employees" THEN employees ELSE company_list

\* find({}).toArray() of request i settles: the documents, or 500.
FindDone(i, ok) ==
    /\ Running
    /\ storeReply' = Reply(ok)
    /\ i \in 1..Len(reqs)
    /\ reqs[i].pc = "awaitFind"
    /\ reqs' = [reqs EXCEPT ![i] =
                  IF ok THEN Answered(@.route, @.arg, 200, Collection(@.route))
                        ELSE Answered(@.route, @.arg, 500, << >>)]
    /\ UNCHANGED << db, writeConcern, startPc, employees, company_list, seeded,
                    listener, clientClosed, exitCode >>

\* ------------------------------------------------------------ shutdown
\* process.on('SIGTERM') / process.on('SIGINT'): server.close(callback) stops
\* the listener; on a server that is already closing it only registers one
\* more callback behind the first, which exits the process.
Signal(sig) ==
    /\ Running
    /\ UNCHANGED storeReply
    /\ listener' = "closing"
    /\ UNCHANGED << db, writeConcern, startPc, employees, company_list, seeded,
                    reqs, clientClosed, exitCode >>

\* Mutant of Drained: the close callback does not wait for requests in flight.
DrainedAlways == TRUE

\* The server has no connection left: whether the close callback may run.
Drained == InFlight = {}

\* The callback of server.close: close the client when the handle is set,
\* then process.exit(0).
ServerClosed ==
    /\ Running
    /\ UNCHANGED storeReply
    /\ listener = "closing"
    /\ Drained
    /\ listener' = "closed"
    /\ clientClosed' = db
    /\ exitCode' = 0
    /\ UNCHANGED << db, writeConcern, startPc, employees, company_list, seeded,
                    reqs >>

Next ==
    \/ \E ok \in BOOLEAN : ConnectDone(ok)
    \/ \E ok \in BOOLEAN : CountDone(ok)
    \/ \E ok \in BOOLEAN, k \in 0..(Len(SeedEmployees) - 1) : SeedEmployeesDone(ok, k)
    \/ \E ok \in BOOLEAN, k \in 0..(Len(SeedCompanyList) - 1) : SeedCompanyListDone(ok, k)
    \/ Health
    \/ \E q \in Queries : Greet(q)
    \/ \E body \in Bodies : PostEmployees(body)
    \/ \E i \in 1..MaxReq, ok \in BOOLEAN : PrimaryInsertDone(i, ok)
    \/ \E i \in 1..MaxReq, ok \in BOOLEAN : MirrorInsertDone(i, ok)
    \/ GetEmployees
    \/ GetCompanyList
    \/ \E i \in 1..MaxReq, ok \in BOOLEAN : FindDone(i, ok)
    \/ \E sig \in {"SIGTERM", "SIGINT"} : Signal(sig)
    \/ ServerClosed

Spec == Init /\ [][Next]_vars

\* ===================================================================
\* Properties
\* ===================================================================
Reqs == 1..Len(reqs)

Posts == {i \in Reqs : reqs[i].route = "POST /employees"}

Healths == {i \in Reqs : reqs[i].route = "GET /health"}

Range(s) == {s[k] : k \in 1..Len(s)}

\* A required field that is missing or empty.
Lacks(v) == v = Undefined \/ v = ""

ValidBody(b) == ~Lacks(b.name) /\ ~Lacks(b.email)

\* The seed documents the two insertMany calls stored.
SeededEmployees == Take(SeedEmployees, seeded.emp)

SeededCompanyList == Take(SeedCompanyList, seeded.cl)

HasEmployee(b) ==
    \E k \in 1..Len(employees) :
        employees[k].name = b.name /\ employees[k].email = b.email

HasEntry(b) ==
    \E k \in 1..Len(company_list) :
        /\ company_list[k].name = b.name
        /\ DOMAIN company_list[k] \cap {"email", "department"} = {}

\* The request a step has just accepted, when it accepted one.
Accepted == Len(reqs') = Len(reqs) + 1

NewReq == reqs'[Len(reqs')]

\* ------------------------------------------------------------------ C1
\* C1 as stated: every valid POST /employees handled while the store is
\* connected leaves, once completed, an employees record with its name and
\* email and a company_list entry with its name and without email or
\* department, whatever the outcome of the two inserts.
C1_AsStated ==
    \A i \in Posts :
        (ValidBody(reqs[i].arg) /\ reqs[i].pc = "done" /\ reqs[i].status # 503)
            => (HasEmployee(reqs[i].arg) /\ HasEntry(reqs[i].arg))

\* C1 amended: a valid POST /employees handled while connected completes with
\* 201 or 500; when it completed with 201 the employees collection holds a
\* record with its name and email and company_list holds an entry with its
\* name and no email or department field.
C1_Created ==
    \A i \in Posts :
        /\ (ValidBody(reqs[i].arg) /\ reqs[i].pc = "done" /\ reqs[i].status # 503)
              => reqs[i].status \in {201, 500}
        /\ reqs[i].status = 201
              => (HasEmployee(reqs[i].arg) /\ HasEntry(reqs[i].arg))

C1_Witness ==
    \E i \in Posts : reqs[i].status = 201 /\ storeReply = "resolved"

\* ------------------------------------------------------------------ C2
\* C2: a POST /employees accepted while the handle is set whose body lacks
\* name or email is answered 400 in the accepting step, issues no insert and
\* leaves both collections unchanged.
C2_BadRequest ==
    [][(Accepted /\ db /\ NewReq.route = "POST /employees" /\ ~ValidBody(NewReq.arg))
          => /\ NewReq.status = 400
             /\ NewReq.pc = "done"
             /\ employees' = employees
             /\ company_list' = company_list]_vars

C2_Witness ==
    \E i \in Posts :
        /\ reqs[i].status = 400
        /\ Lacks(reqs[i].arg.email)
        /\ ~Lacks(reqs[i].arg.name)
        /\ Len(employees) > 0

\* ------------------------------------------------------------------ C3
Created(d) == Cardinality({i \in Posts : reqs[i].status = 201 /\ NewEmployee(reqs[i].arg) = d})

Mirrored(e) == Cardinality({i \in Posts : reqs[i].status = 201 /\ CompanyListEntry(reqs[i].arg) = e})

\* POSTs whose primary insert may have stored d without a 201 answer.
Unmirrored(d) ==
    Cardinality({i \in Posts : /\ NewEmployee(reqs[i].arg) = d
                               /\ (reqs[i].status = 500 \/ reqs[i].pc = "awaitMirror")})

\* The documents either side of the comparison can hold.
EmployeeDocs ==
    Range(employees) \cup Range(SeededEmployees) \cup {NewEmployee(reqs[i].arg) : i \in Posts}

CompanyDocs ==
    Range(company_list) \cup Range(SeededCompanyList) \cup {CompanyListEntry(reqs[i].arg) : i \in Posts}

\* C3 as stated: when every accepted request has been answered, each
\* collection holds exactly the seeded records plus one record per POST
\* /employees answered 201.
C3_AsStated ==
    InFlight = {} =>
        /\ \A d \in EmployeeDocs : Count(employees, d) = Count(SeededEmployees, d) + Created(d)
        /\ \A e \in CompanyDocs : Count(company_list, e) = Count(SeededCompanyList, e) + Mirrored(e)

\* C3 amended: company_list holds exactly the seeded entries plus one entry
\* per POST answered 201; employees holds the seeded records, one record per
\* POST answered 201 and at most one record per POST answered 500 or still
\* awaiting its mirror insert; POSTs answered 400 or 503 add nothing; and
\* what a list request returned is a prefix of its collection.
C3_Reflects ==
    /\ \A e \in CompanyDocs : Count(company_list, e) = Count(SeededCompanyList, e) + Mirrored(e)
    /\ \A d \in EmployeeDocs :
          LET added == Count(employees, d) - Count(SeededEmployees, d) IN
            /\ Created(d) <= added
            /\ added <= Created(d) + Unmirrored(d)
    /\ \A i \in Reqs :
          /\ (reqs[i].route = "GET /employees" /\ reqs[i].status = 200)
                => IsPrefix(reqs[i].result, employees)
          /\ (reqs[i].route = "GET /company-list" /\ reqs[i].status = 200)
                => IsPrefix(reqs[i].result, company_list)

C3_Witness ==
    \E i \in Posts, j \in Reqs :
        /\ reqs[i].status = 500
        /\ reqs[j].route = "GET /employees"
        /\ reqs[j].status = 200
        /\ NewEmployee(reqs[i].arg) \in Range(reqs[j].result)
        /\ ~HasEntry(reqs[i].arg)

\* ------------------------------------------------------------------ C4
\* C4 as stated: the store is empty at startup, and in the step in which
\* connectToMongo finishes the employees collection holds exactly the two
\* seed employees and company_list exactly the two seed entries.
C4_SeededExactly ==
    [][(startPc # "done" /\ startPc' = "done")
          => (employees' = SeedEmployees /\ company_list' = SeedCompanyList)]_vars

\* ------------------------------------------------------------------ C5
\* C5: GET /health answers 503 while client.connect() has not completed and
\* 200 once it has, and no 503 follows a 200.
C5_Health ==
    /\ [](\A i \in Healths :
            /\ reqs[i].status \in {200, 503}
            /\ reqs[i].status = 200 => db
            /\ \A j \in Healths : (i < j /\ reqs[i].status = 200) => reqs[j].status = 200)
    /\ [][(Accepted /\ NewReq.route = "GET /health")
            => NewReq.status = (IF startPc = "connect" THEN 503 ELSE 200)]_vars

C5_Witness ==
    \E i, j \in Healths : i < j /\ reqs[i].status = 503 /\ reqs[j].status = 200

\* ------------------------------------------------------------------ C6
StoreRoutes == {"POST /employees", "GET /employees", "GET /company-list"}

\* C6: while the handle is unset the three store routes answer 503 in the
\* accepting step, whatever the body, and no store operation is issued; once
\* a handler awaits a store operation, a rejected operation or an
\* unacknowledged primary insert makes it answer 500.
C6_Errors ==
    [][/\ (Accepted /\ ~db /\ NewReq.route \in StoreRoutes)
            => /\ NewReq.status = 503
               /\ NewReq.pc = "done"
               /\ UNCHANGED storeReply
               /\ employees' = employees
               /\ company_list' = company_list
       /\ \A i \in Reqs :
            (/\ reqs[i].pc # "done"
             /\ reqs'[i] # reqs[i]
             /\ \/ storeReply' = "rejected"
                \/ reqs[i].pc = "awaitPrimary" /\ ~Acknowledged(writeConcern))
            => (reqs'[i].status = 500 /\ reqs'[i].pc = "done")]_vars

C6_Witness ==
    \E i \in Posts, j \in Reqs :
        /\ reqs[i].status = 503
        /\ ~ValidBody(reqs[i].arg)
        /\ reqs[j].status = 500
        /\ storeReply = "rejected"

\* ------------------------------------------------------------------ C7
StartupFailures == {"connectFailed", "countFailed", "seedEmployeesFailed", "seedCompanyListFailed"}

MidPost == {i \in Posts : reqs[i].pc = "awaitMirror"}

\* C7 as stated: once a signal was received the process ends only through
\* the close callback: listener closed, then the client closed when the
\* handle is set, then exit code 0, with no POST between its two inserts.
C7_AsStated ==
    (listener # "listening" /\ ~Running)
        => /\ exitCode = 0
           /\ listener = "closed"
           /\ clientClosed = db
           /\ MidPost = {}

\* C7 amended: a signal stops the listener from accepting requests; the
\* client is closed and exit code 0 is produced only in the close callback,
\* after the listener has closed with no request in flight; the only other
\* exit is code 1 from a failed connectToMongo, which closes nothing.
C7_Shutdown ==
    /\ [](/\ exitCode = 0 => /\ listener = "closed"
                             /\ InFlight = {}
                             /\ clientClosed = db
          /\ clientClosed => exitCode = 0
          /\ listener = "closed" => exitCode = 0
          /\ exitCode = 1 <=> startPc \in StartupFailures)
    /\ [][listener # "listening" => Len(reqs') = Len(reqs)]_vars

C7_Witness ==
    /\ exitCode = 0
    /\ clientClosed
    /\ \E i \in Posts : reqs[i].status = 201

\* ------------------------------------------------------------------ C8
\* C8: a failed client.connect() ends the process with code 1 and leaves the
\* handle unset; while the handle is unset every answer is 503 or the /greet
\* answer; a failed seed mirror insert ends the process with code 1 and the
\* two seed employees stay in the employees collection.
C8_StartupFailure ==
    /\ startPc \in StartupFailures => exitCode = 1
    /\ startPc = "connectFailed" => ~db
    /\ ~db => \A i \in Reqs : reqs[i].route = "GET /greet" \/ reqs[i].status = 503
    /\ startPc = "seedCompanyListFailed"
          => \A k \in 1..Len(SeedEmployees) : Count(employees, SeedEmployees[k]) = 1

C8_Witness ==
    /\ startPc = "connectFailed"
    /\ \E i \in Reqs : reqs[i].route = "GET /greet" /\ reqs[i].status = 200
    /\ \E i \in Posts : reqs[i].status = 503

\* The second case of C8: the seed mirror insert failed after one entry.
C8_SeedMirrorFailed ==
    /\ startPc = "seedCompanyListFailed"
    /\ Len(company_list) < Len(SeedCompanyList)

\* ------------------------------------------------------------------ C9
Names == {b.name : b \in Bodies} \cup {SeedEmployees[k].name : k \in 1..Len(SeedEmployees)}

\* C9: when every POST /employees accepted so far has been answered 201, the
\* employees collection gained exactly one record per request and
\* company_list exactly one entry per request with the same name, in
\* whatever order the inserts of the requests settled.
C9_OrderIndependent ==
    (Posts # {} /\ \A i \in Posts : reqs[i].status = 201)
        => /\ Len(employees) = Len(SeededEmployees) + Cardinality(Posts)
           /\ Len(company_list) = Len(SeededCompanyList) + Cardinality(Posts)
           /\ \A i \in Posts :
                Count(employees, NewEmployee(reqs[i].arg))
                    = Cardinality({j \in Posts : reqs[j].arg = reqs[i].arg})
           /\ \A n \in Names :
                CountName(company_list, n)
                    = CountName(SeededCompanyList, n)
                        + Cardinality({j \in Posts : reqs[j].arg.name = n})

\* Two requests answered 201 whose primary inserts settled in one order and
\* whose mirror inserts settled in the other.
C9_Witness ==
    /\ Cardinality(Posts) >= 2
    /\ \A i \in Posts : reqs[i].status = 201
    /\ \E a, b \in 1..Len(employees), c, d \in 1..Len(company_list) :
          /\ a < b
          /\ c < d
          /\ employees[a].name = company_list[d].name
          /\ employees[b].name = company_list[c].name
          /\ employees[a].name # employees[b].name

\* ----------------------------------------------------------------- C10
\* C10: every name occurs in company_list at most as often as in employees,
\* and a step only appends to either collection.
C10_Contained ==
    /\ [](\A n \in Names \cup {company_list[k].name : k \in 1..Len(company_list)} :
            CountName(company_list, n) <= CountName(employees, n))
    /\ [][IsPrefix(employees, employees') /\ IsPrefix(company_list, company_list')]_vars

C10_Witness ==
    /\ exitCode = 1
    /\ storeReply = "rejected"
    /\ Len(company_list) > 0
    /\ \E i \in Posts : reqs[i].pc = "awaitMirror"
====
